---- MODULE Spec2Model ----
(***************************************************************************)
(* Model of thinkingcow/sprinkler-timer: the i2clib relay driver           *)
(* (src/i2clib/relay.go) and the sprinkler sequencer with its signal       *)
(* watcher goroutine (src/cmd/sprinkler/sprinkler.go).                     *)
(*                                                                         *)
(* Representation of Go values:                                            *)
(*   - a Go `int` used as a relay mask is the set of its set bit positions *)
(*     (a subset of 0..IntBits-1), so that 1 << 63 is representable;       *)
(*   - a Go `byte` is a number in 0..255;                                  *)
(*   - a time.Duration is a number of milliseconds.                        *)
(* The relay board is a register `hw` holding the last wire byte it took.  *)
(***************************************************************************)
EXTENDS Integers, Sequences, FiniteSets, TLC

\* ------------------------------------------------------------------ bounds
MaxEvents == 2      \* longest program drawn by Init
MaxSignals == 2     \* signals the OS delivers during one process lifetime
MaxFaults == 1      \* I/O calls that fail during one process lifetime
MaxBoardCalls == 2  \* Board calls made on one Relay, the one in NewRelay included

\* --------------------------------------------------------------- constants
IntBits == 64
baseAddress == 39
readAddress == 0
writeAddress == 1
offTime == 3000

ZoneCycle == <<0, 1, 9, 2, 64, 65>>
Durations == {5000}
Percents == {0, 100}
Boards == {0, 1, 9}
InitialWire == {0, 5}
Signals == {"SIGURG", "SIGUSR1", "SIGTERM"}
TermSignals == {"SIGTERM"}

VARIABLES
    prog,       \* main: the parsed program, a sequence of [id, dur]
    pct,        \* main: the -scale flag
    board,      \* main: the -board flag
    mainpc,     \* main goroutine's position
    idx,        \* program.run: index of the current event (1-based)
    pre,        \* main: result of the preflight Get
    runErr,     \* main: what program.run returned ("none" until it returns)
    rFile,      \* Relay.file: "nil", "open" or "closed"
    rBoard,     \* Relay.board
    hw,         \* the board's relay register (wire byte)
    wpc,        \* signal watcher goroutine's position ("off": not installed)
    wsig,       \* the signal s the watcher is handling ("none" while it waits)
    sigc,       \* channel c of cleanup (capacity 1)
    exitedBy,   \* "none", or who ended the process: "main" or "watcher"
    exitPath,   \* the branch of main that ended it
    trace,      \* history: the system calls issued on the device handle
    nsig,       \* history: number of signals the OS delivered
    delivered,  \* history: the kinds of signal delivered
    faults,     \* history: number of failed I/O calls
    slept,      \* history: total time the main goroutine slept
    bm,         \* evaluation state of the pure-function specifications
    cli,        \* the command line and what main printed on stdout
    peer        \* a second sprinkler process on the same board (DuoSpec only)

mainVars == <<prog, pct, board, mainpc, idx, pre, runErr>>
relayVars == <<rFile, rBoard, hw>>
watchVars == <<wpc, wsig, sigc>>
procVars == <<exitedBy, exitPath>>
histVars == <<trace, nsig, delivered, faults, slept>>
vars == <<mainVars, relayVars, watchVars, procVars, histVars, bm, cli, peer>>

\* ------------------------------------------------------------- bit mapping
relay2Addr == [i \in 0..7 |-> <<0, 2, 1, 3, 6, 4, 5, 7>>[i + 1]]

SetMax(S) == CHOOSE x \in S : \A y \in S : y <= x

\* init(): addr2Relay[v] = i for each i, v in order; unassigned entries stay 0
InitAddr2Relay(tab) ==
    [a \in 0..7 |-> LET S == {i \in 0..7 : tab[i] = a}
                    IN  IF S = {} THEN 0 ELSE SetMax(S)]

addr2Relay == InitAddr2Relay(relay2Addr)

\* the byte with exactly the bits of P that fit in 8 bits
ByteOf(P) ==
    LET b(p) == IF p \in P THEN 2 ^ p ELSE 0
    IN  b(0) + b(1) + b(2) + b(3) + b(4) + b(5) + b(6) + b(7)

\* the bit positions set in byte b
BitsOfByte(b) == {i \in 0..7 : (b \div (2 ^ i)) % 2 = 1}

\* a driver that puts the mask on the wire without the wiring table
relay2icUnmapped(in) == ByteOf({i \in 0..7 : i \in in})

\* relay2ic(in int) byte
relay2ic(in) == ByteOf({relay2Addr[i] : i \in {j \in 0..7 : j \in in}})

\* ic2relay reading the forward table instead of its inverse
ic2relayForward(in) == {relay2Addr[i] : i \in BitsOfByte(in)}

\* ic2relay(in byte) int
ic2relay(in) == {addr2Relay[i] : i \in BitsOfByte(in)}

\* the value of a small non-negative Go int
IntOf(P) == ByteOf(P)

\* the Go int m (0..255) as a mask
Bits(m) == BitsOfByte(m)


\* --------------------------------------------------------------- programs
\* the programs Init draws: every run of up to MaxEvents consecutive zones of
\* ZoneCycle (taken cyclically), with every duration
ZoneAt(k) == ZoneCycle[((k - 1) % Len(ZoneCycle)) + 1]

Programs ==
    {[k \in 1..n |-> [id |-> ZoneAt(s + k - 1), dur |-> d]] :
        s \in 1..Len(ZoneCycle), n \in 1..MaxEvents, d \in Durations}

\* Go's integer division truncates toward zero
GoDiv(a, b) == IF a >= 0 THEN a \div b ELSE -((-a) \div b)

\* scale without the floor at offTime
scaleNoFloor(dur, percent) == GoDiv(dur * percent, 100)

\* scale(dur, percent)
scale(dur, percent) ==
    LET scaled == GoDiv(dur * percent, 100)
    IN  IF scaled < offTime THEN offTime ELSE scaled

\* EventMask as (1 << id) - 1: every zone up to id
EventMaskAllBelow(id) == {i \in 0..(IntBits - 1) : i < id}

\* event.run: mask = 1 << (e.id - 1) when e.id > 0, else 0; a shift by the
\* width of int or more yields 0
EventMask(id) ==
    IF id > 0
    THEN (IF id - 1 < IntBits THEN {id - 1} ELSE {})
    ELSE {}

\* ------------------------------------------------------ the command line
\* A Go string is the sequence of its characters.  The event texts below are
\* drawn for -program: accepted ones (zones 1, 2, 0 and 9) and one for each
\* way event.Set rejects a text.
EventTexts ==
    {<<"1", ":", "1", "0", "s">>,
     <<"2", ":", "1", "0", "s">>,
     <<"0", ":", "3", "s">>,
     <<"9", ":", "1", "m", "3", "0", "s">>,
     <<"1", ":", "1", "s">>,
     <<"1", ":", "2", "9", "9", "9", "m", "s">>,
     <<"x", ":", "5", "s">>,
     <<"-", "1", ":", "5", "s">>,
     <<"1", ":", "5">>,
     <<"1", ":", "2", ":", "5", "s">>,
     <<"1", ":", "-", "5", "s">>,
     <<>>}

Digits == <<"0", "1", "2", "3", "4", "5", "6", "7", "8", "9">>

IsDigit(c) == \E i \in 1..10 : Digits[i] = c

DigitVal(c) == (CHOOSE i \in 1..10 : Digits[i] = c) - 1

\* the decimal value of a run of digits
RECURSIVE DecVal(_)
DecVal(s) ==
    IF s = <<>> THEN 0
    ELSE 10 * DecVal(SubSeq(s, 1, Len(s) - 1)) + DigitVal(s[Len(s)])

\* strings.Split(s, sep) for a one-character separator
RECURSIVE StrSplit(_, _)
StrSplit(s, sep) ==
    IF \A i \in 1..Len(s) : s[i] # sep THEN <<s>>
    ELSE LET k == CHOOSE i \in 1..Len(s) :
                      s[i] = sep /\ \A j \in 1..(i - 1) : s[j] # sep
         IN  <<SubSeq(s, 1, k - 1)>> \o StrSplit(SubSeq(s, k + 1, Len(s)), sep)

\* strings.Join(parts, sep)
RECURSIVE StrJoin(_, _)
StrJoin(parts, sep) ==
    IF Len(parts) = 0 THEN <<>>
    ELSE IF Len(parts) = 1 THEN parts[1]
    ELSE parts[1] \o <<sep>> \o StrJoin(Tail(parts), sep)

\* the sequences over S of length n
RECURSIVE SeqsOfLen(_, _)
SeqsOfLen(S, n) ==
    IF n = 0 THEN {<<>>}
    ELSE {Append(q, x) : q \in SeqsOfLen(S, n - 1), x \in S}

\* the values of -program: 1..MaxEvents event texts joined by commas
ProgramTexts ==
    {StrJoin(q, ",") : q \in UNION {SeqsOfLen(EventTexts, n) : n \in 1..MaxEvents}}

HasSign(s) == s # <<>> /\ s[1] \in {"+", "-"}

Unsigned(s) == IF HasSign(s) THEN Tail(s) ELSE s

\* strconv.Atoi(s): an optional sign and one or more decimal digits
Atoi(s) ==
    LET d == Unsigned(s)
    IN  IF d = <<>> \/ \E i \in 1..Len(d) : ~IsDigit(d[i])
        THEN [err |-> TRUE, val |-> 0]
        ELSE [err |-> FALSE,
              val |-> IF s[1] = "-" THEN -DecVal(d) ELSE DecVal(d)]

\* time.ParseDuration's unitMap, in milliseconds (texts with ns and us units
\* are not drawn)
UnitMs(u) ==
    IF u = <<"m", "s">> THEN 1
    ELSE IF u = <<"s">> THEN 1000
    ELSE IF u = <<"m">> THEN 60000
    ELSE IF u = <<"h">> THEN 3600000
    ELSE 0

IsUnitChar(c) == ~IsDigit(c) /\ c # "."

\* the number of leading digits of s
DigitSpan(s) ==
    CHOOSE n \in 0..Len(s) :
        /\ \A i \in 1..n : IsDigit(s[i])
        /\ n = Len(s) \/ ~IsDigit(s[n + 1])

\* the number of leading unit characters of s
UnitSpan(s) ==
    CHOOSE n \in 0..Len(s) :
        /\ \A i \in 1..n : IsUnitChar(s[i])
        /\ n = Len(s) \/ ~IsUnitChar(s[n + 1])

\* time.ParseDuration's loop over the terms <digits><unit> of an unsigned
\* text (texts with a fraction are not drawn); -1 stands for the error
RECURSIVE DurationTerms(_)
DurationTerms(s) ==
    IF s = <<>> THEN 0
    ELSE LET n == DigitSpan(s)
             rest == SubSeq(s, n + 1, Len(s))
             u == UnitSpan(rest)
             unit == SubSeq(rest, 1, u)
             more == DurationTerms(SubSeq(rest, u + 1, Len(rest)))
         IN  IF n = 0 \/ u = 0 \/ UnitMs(unit) = 0 \/ more = -1 THEN -1
             ELSE DecVal(SubSeq(s, 1, n)) * UnitMs(unit) + more

\* time.ParseDuration(s)
ParseDuration(s) ==
    LET d == Unsigned(s)
        v == DurationTerms(d)
    IN  IF d = <<"0">> THEN [err |-> FALSE, val |-> 0]
        ELSE IF d = <<>> \/ v = -1 THEN [err |-> TRUE, val |-> 0]
        ELSE [err |-> FALSE, val |-> IF s[1] = "-" THEN -v ELSE v]

\* event.Set without the `dur < offTime` test
EventSetNoFloor(s) ==
    LET parts == StrSplit(s, ":")
        dur == ParseDuration(parts[2])
        id == Atoi(parts[1])
    IN  IF Len(parts) # 2 THEN [err |-> "format", e |-> [id |-> 0, dur |-> 0]]
        ELSE IF dur.err THEN [err |-> "duration", e |-> [id |-> 0, dur |-> 0]]
        ELSE IF id.err \/ id.val < 0
             THEN [err |-> "id", e |-> [id |-> 0, dur |-> 0]]
        ELSE [err |-> "none", e |-> [id |-> id.val, dur |-> dur.val]]

\* event.Set(s): the error, or the event it stores
EventSet(s) ==
    LET parts == StrSplit(s, ":")
        dur == ParseDuration(parts[2])
        id == Atoi(parts[1])
    IN  IF Len(parts) # 2 THEN [err |-> "format", e |-> [id |-> 0, dur |-> 0]]
        ELSE IF dur.err THEN [err |-> "duration", e |-> [id |-> 0, dur |-> 0]]
        ELSE IF dur.val < offTime
             THEN [err |-> "tooshort", e |-> [id |-> 0, dur |-> 0]]
        ELSE IF id.err \/ id.val < 0
             THEN [err |-> "id", e |-> [id |-> 0, dur |-> 0]]
        ELSE [err |-> "none", e |-> [id |-> id.val, dur |-> dur.val]]

\* the loop of program.Set over the texts that are left: the first error ends
\* it, with the events appended so far kept in the program
RECURSIVE ProgramSetLoop(_, _)
ProgramSetLoop(p, texts) ==
    IF texts = <<>> THEN [err |-> "none", prog |-> p]
    ELSE LET r == EventSet(texts[1])
         IN  IF r.err # "none" THEN [err |-> r.err, prog |-> p]
             ELSE ProgramSetLoop(Append(p, r.e), Tail(texts))

\* program.Set(s) on the program p
ProgramSet(p, s) == ProgramSetLoop(p, StrSplit(s, ","))

\* program.duration(percent)
RECURSIVE SumScaled(_, _)
SumScaled(p, percent) ==
    IF p = <<>> THEN 0
    ELSE scale(p[1].dur, percent) + SumScaled(Tail(p), percent)

\* program.duration without the settling delays
ProgramDurationNoSettle(p, percent) == SumScaled(p, percent)

ProgramDuration(p, percent) == SumScaled(p, percent) + Len(p) * offTime

\* ---------------------------------------------------------- the Relay type
\* one system call on the device handle: `out` are the bytes handed to the
\* device, `byte` the relay byte carried (buf[1], or the ioctl's address),
\* `state` the mask at the API (Set's argument, Get's result)
Entry(sys, api, who, state, out, byte, res) ==
    [sys |-> sys, api |-> api, who |-> who, state |-> state, out |-> out,
     byte |-> byte, res |-> res]

Failed(res) == res # "ok"

\* results <<res, applied>> an I/O call on the handle can have: "ok"; "err",
\* the call returned an error or a short count (Set and Get return an error
\* for both); "closed", the handle was closed (os.ErrClosed). `applied` says
\* whether the board took the byte of the write.
IoOutcomes ==
    IF rFile = "closed"
    THEN {<<"closed", FALSE>>}
    ELSE {<<"ok", TRUE>>} \cup
         (IF faults < MaxFaults
          THEN {<<"err", TRUE>>, <<"err", FALSE>>}
          ELSE {})

ReadOutcomes == {o \in IoOutcomes : o[1] = "ok" \/ ~o[2]}

CountFault(res) ==
    faults' = IF res = "err" THEN faults + 1 ELSE faults

\* Relay.Set: buf := []byte{writeAddress, relay2ic(state)}
SetBuf(state) == <<writeAddress, relay2ic(state)>>

\* Relay.Get: buf := []byte{readAddress, 0}, the buffer handed to Read
GetBuf == <<readAddress, 0>>

\* Relay.Set(state): one write of buf
RelaySet(who, state, o) ==
    /\ trace' = Append(trace, Entry("write", "Set", who, state, SetBuf(state),
                                    SetBuf(state)[2], o[1]))
    /\ hw' = IF o[2] THEN SetBuf(state)[2] ELSE hw
    /\ CountFault(o[1])

\* Relay.Get(): one read of Len(GetBuf) bytes over buf, nothing is written;
\* the result is ic2relay(buf[1]), or 0 with the error
GetValue(o) == IF o[1] = "ok" THEN ic2relay(hw) ELSE {}

RelayGet(who, o) ==
    /\ trace' = Append(trace, Entry("read", "Get", who, GetValue(o), <<>>, hw, o[1]))
    /\ CountFault(o[1])

\* Relay.Close()
RelayClose(who) ==
    /\ trace' = Append(trace, Entry("close", "Close", who, {}, <<>>, 0,
                                    IF rFile = "open" THEN "ok" ELSE "closed"))
    /\ rFile' = "closed"

\* Relay.Board(n): the slave address handed to the ioctl
BoardAddr(n) == baseAddress - ((n - 1) % 8)

\* Relay.Board that leaves r.board = n when the ioctl fails
RelayBoardKeepsField(who, n, o) ==
    /\ trace' = Append(trace, Entry("ioctl", "Board", who, {}, <<>>, BoardAddr(n), o[1]))
    /\ rBoard' = n
    /\ CountFault(o[1])

\* Relay.Board(n): r.board = n, one ioctl with the slave address, r.board = 0
\* when it fails
RelayBoard(who, n, o) ==
    /\ trace' = Append(trace, Entry("ioctl", "Board", who, {}, <<>>, BoardAddr(n), o[1]))
    /\ rBoard' = IF Failed(o[1]) THEN 0 ELSE n
    /\ CountFault(o[1])

Exit(who, path) == exitedBy' = who /\ exitPath' = path

Running == exitedBy = "none"

\* ------------------------------------------------------ the main goroutine
BmIdle == [stage |-> "idle", dir |-> "none", in |-> 0, mid |-> 0, out |-> 0]

\* the command line once flag.Parse has accepted it with -total-time off (the
\* text of -program is not kept), nothing printed on stdout
CliParsed == [given |-> TRUE, program |-> <<>>, totalTime |-> FALSE, stdout |-> <<>>]

\* no second process
PeerAbsent == [pc |-> "absent", idx |-> 0, prog |-> <<>>]

Init ==
    /\ prog \in Programs
    /\ pct \in Percents
    /\ board \in Boards
    /\ mainpc = "newrelay"
    /\ idx = 0
    /\ pre = [done |-> FALSE, val |-> {}, err |-> FALSE]
    /\ runErr = "none"
    /\ rFile = "nil"
    /\ rBoard = 0
    /\ hw \in InitialWire
    /\ wpc = "off"
    /\ wsig = "none"
    /\ sigc = <<>>
    /\ exitedBy = "none"
    /\ exitPath = "none"
    /\ trace = <<>>
    /\ nsig = 0
    /\ delivered = {}
    /\ faults = 0
    /\ slept = 0
    /\ bm = BmIdle
    /\ cli = CliParsed
    /\ peer = PeerAbsent

\* main: flag.Parse().  -program is a flag.Var on prog: the flag package calls
\* prog.Set(text) and, CommandLine being ExitOnError, ends the process with
\* status 2 when Set returns an error
MainParse ==
    /\ Running /\ mainpc = "parse"
    /\ LET r == IF cli.given THEN ProgramSet(prog, cli.program)
                ELSE [err |-> "none", prog |-> prog]
       IN  /\ prog' = r.prog
           /\ IF r.err # "none"
              THEN Exit("flag", r.err) /\ mainpc' = mainpc
              ELSE mainpc' = "start" /\ UNCHANGED procVars
    /\ UNCHANGED <<pct, board, idx, pre, runErr, relayVars, watchVars, histVars, bm, cli, peer>>

\* MainStart without the isDuration branch
MainStartNoTotalTime ==
    /\ Running /\ mainpc = "start"
    /\ IF Len(prog) < 1
       THEN Exit("main", "noprogram") /\ mainpc' = mainpc
       ELSE mainpc' = "newrelay" /\ UNCHANGED procVars
    /\ UNCHANGED <<prog, pct, board, idx, pre, runErr, relayVars, watchVars, histVars, bm, cli, peer>>

\* main: if len(prog) < 1 { return }; if isDuration { print
\* prog.duration(scale); return }
MainStart ==
    /\ Running /\ mainpc = "start"
    /\ IF Len(prog) < 1
       THEN Exit("main", "noprogram") /\ mainpc' = mainpc /\ cli' = cli
       ELSE IF cli.totalTime
            THEN /\ cli' = [cli EXCEPT !.stdout = Append(@, ProgramDuration(prog, pct))]
                 /\ Exit("main", "totaltime") /\ mainpc' = mainpc
            ELSE mainpc' = "newrelay" /\ UNCHANGED <<procVars, cli>>
    /\ UNCHANGED <<prog, pct, board, idx, pre, runErr, relayVars, watchVars, histVars, bm, peer>>

\* main: r, err := i2clib.NewRelay(bus, board); if err != nil { return }
MainNewRelay ==
    /\ Running /\ mainpc = "newrelay"
    /\ \/ /\ (board < 1 \/ board > 8)
          /\ Exit("main", "badboard")
          /\ UNCHANGED <<rFile, rBoard, trace, faults>>
       \/ /\ ~(board < 1 \/ board > 8)
          /\ faults < MaxFaults
          /\ faults' = faults + 1
          /\ Exit("main", "openfail")
          /\ UNCHANGED <<rFile, rBoard, trace>>
       \/ /\ ~(board < 1 \/ board > 8)
          /\ faults < MaxFaults
          /\ rFile' = "open"
          /\ rBoard' = 0
          /\ trace' = Append(trace, Entry("ioctl", "Board", "main", {}, <<>>, BoardAddr(board), "err"))
          /\ faults' = faults + 1
          /\ Exit("main", "selectfail")
       \/ /\ ~(board < 1 \/ board > 8)
          /\ rFile' = "open"
          /\ rBoard' = board
          /\ trace' = Append(trace, Entry("ioctl", "Board", "main", {}, <<>>, BoardAddr(board), "ok"))
          /\ UNCHANGED <<faults, procVars>>
    /\ mainpc' = IF exitedBy' = "none" THEN "preflight" ELSE mainpc
    /\ UNCHANGED <<prog, pct, board, idx, pre, runErr, hw, watchVars, nsig, delivered, slept, bm, cli, peer>>

\* MainPreflight without the `i != 0` test
MainPreflightNoGuard ==
    /\ Running /\ mainpc = "preflight"
    /\ \E o \in ReadOutcomes :
        /\ RelayGet("main", o)
        /\ pre' = [done |-> TRUE, val |-> GetValue(o), err |-> Failed(o[1])]
        /\ IF Failed(o[1])
           THEN Exit("main", "getfail") /\ mainpc' = mainpc
           ELSE mainpc' = "cleanup" /\ UNCHANGED procVars
    /\ UNCHANGED <<prog, pct, board, idx, runErr, relayVars, watchVars, nsig, delivered, slept, bm, cli, peer>>

\* main: i, err := r.Get(); if err != nil { return }; if i != 0 { return }
MainPreflight ==
    /\ Running /\ mainpc = "preflight"
    /\ \E o \in ReadOutcomes :
        /\ RelayGet("main", o)
        /\ pre' = [done |-> TRUE, val |-> GetValue(o), err |-> Failed(o[1])]
        /\ IF Failed(o[1])
           THEN Exit("main", "getfail") /\ mainpc' = mainpc
           ELSE IF GetValue(o) # {}
                THEN Exit("main", "inuse") /\ mainpc' = mainpc
                ELSE mainpc' = "cleanup" /\ UNCHANGED procVars
    /\ UNCHANGED <<prog, pct, board, idx, runErr, relayVars, watchVars, nsig, delivered, slept, bm, cli, peer>>

\* main: cleanup(r); defer r.Close(); prog.run(r, scale) is entered
MainCleanup ==
    /\ Running /\ mainpc = "cleanup"
    /\ wpc' = "recv"
    /\ mainpc' = "ev_set"
    /\ idx' = 1
    /\ UNCHANGED <<prog, pct, board, pre, runErr, relayVars, wsig, sigc, procVars, histVars, bm, cli, peer>>

\* event.run: the energizing write; its error ends program.run
EventRunSet ==
    /\ Running /\ mainpc = "ev_set"
    /\ \E o \in IoOutcomes :
        /\ RelaySet("main", EventMask(prog[idx].id), o)
        /\ IF Failed(o[1])
           THEN mainpc' = "ret" /\ runErr' = "err"
           ELSE mainpc' = "ev_sleep" /\ runErr' = runErr
    /\ UNCHANGED <<prog, pct, board, idx, pre, rFile, rBoard, watchVars, procVars, nsig, delivered, slept, bm, cli, peer>>

\* event.run: time.Sleep(scale(e.dur, pct))
EventRunSleep ==
    /\ Running /\ mainpc = "ev_sleep"
    /\ slept' = slept + scale(prog[idx].dur, pct)
    /\ mainpc' = "ev_off"
    /\ UNCHANGED <<prog, pct, board, idx, pre, runErr, relayVars, watchVars, procVars, trace, nsig, delivered, faults, bm, cli, peer>>

\* EventRunOff without the r.Set(0)
EventRunOffNoWrite ==
    /\ Running /\ mainpc = "ev_off"
    /\ mainpc' = "ev_settle"
    /\ UNCHANGED <<prog, pct, board, idx, pre, runErr, relayVars, watchVars, procVars, histVars, bm, cli, peer>>

\* event.run: r.Set(0), its error discarded
EventRunOff ==
    /\ Running /\ mainpc = "ev_off"
    /\ \E o \in IoOutcomes : RelaySet("main", {}, o)
    /\ mainpc' = "ev_settle"
    /\ UNCHANGED <<prog, pct, board, idx, pre, runErr, rFile, rBoard, watchVars, procVars, nsig, delivered, slept, bm, cli, peer>>

\* EventRunSettle without the time.Sleep(offTime)
EventRunSettleNoDelay ==
    /\ Running /\ mainpc = "ev_settle"
    /\ slept' = slept
    /\ IF idx < Len(prog)
       THEN idx' = idx + 1 /\ mainpc' = "ev_set" /\ runErr' = runErr
       ELSE idx' = idx /\ mainpc' = "ret" /\ runErr' = "nil"
    /\ UNCHANGED <<prog, pct, board, pre, relayVars, watchVars, procVars, trace, nsig, delivered, faults, bm, cli, peer>>

\* event.run: time.Sleep(offTime); return nil; program.run takes the next
\* event or returns nil
EventRunSettle ==
    /\ Running /\ mainpc = "ev_settle"
    /\ slept' = slept + offTime
    /\ IF idx < Len(prog)
       THEN idx' = idx + 1 /\ mainpc' = "ev_set" /\ runErr' = runErr
       ELSE idx' = idx /\ mainpc' = "ret" /\ runErr' = "nil"
    /\ UNCHANGED <<prog, pct, board, pre, relayVars, watchVars, procVars, trace, nsig, delivered, faults, bm, cli, peer>>

\* main returns: the deferred r.Close() runs
MainDeferredClose ==
    /\ Running /\ mainpc = "ret"
    /\ RelayClose("main")
    /\ mainpc' = "deferred"
    /\ UNCHANGED <<prog, pct, board, idx, pre, runErr, rBoard, hw, watchVars, procVars, nsig, delivered, faults, slept, bm, cli, peer>>

\* main has returned: the process ends
MainExit ==
    /\ Running /\ mainpc = "deferred"
    /\ Exit("main", IF runErr = "nil" THEN "done" ELSE "failed")
    /\ UNCHANGED <<mainVars, relayVars, watchVars, histVars, bm, cli, peer>>

\* ------------------------------------------------------ the signal watcher
\* signal.Notify(c) on a channel of capacity 1: the runtime's send never
\* blocks, a signal that finds c full is discarded
SignalDeliver ==
    /\ Running /\ wpc # "off"
    /\ nsig < MaxSignals
    /\ nsig' = nsig + 1
    /\ \E s \in Signals :
        /\ delivered' = delivered \cup {s}
        /\ sigc' = IF Len(sigc) < 1 THEN Append(sigc, s) ELSE sigc
    /\ UNCHANGED <<mainVars, relayVars, wpc, wsig, procVars, trace, faults, slept, bm, cli, peer>>

\* s := <-c and the dispatch on s
WatcherRecv ==
    /\ Running /\ wpc = "recv"
    /\ sigc # <<>>
    /\ sigc' = Tail(sigc)
    /\ wsig' = IF Head(sigc) = "SIGURG" THEN "none" ELSE Head(sigc)
    /\ wpc' = IF Head(sigc) = "SIGURG" THEN "recv"
              ELSE IF Head(sigc) = "SIGUSR1" THEN "usr1"
              ELSE "term_set"
    /\ UNCHANGED <<mainVars, relayVars, procVars, histVars, bm, cli, peer>>

\* WatcherGet without the `continue`: control falls into the termination path
WatcherGetFallsThrough ==
    /\ Running /\ wpc = "usr1"
    /\ \E o \in ReadOutcomes : RelayGet("watcher", o)
    /\ wpc' = "term_set"
    /\ UNCHANGED <<mainVars, relayVars, wsig, sigc, procVars, nsig, delivered, slept, bm, cli, peer>>

\* SIGUSR1: i, _ := r.Get(); print; continue
WatcherGet ==
    /\ Running /\ wpc = "usr1"
    /\ \E o \in ReadOutcomes : RelayGet("watcher", o)
    /\ wpc' = "recv"
    /\ wsig' = "none"
    /\ UNCHANGED <<mainVars, relayVars, sigc, procVars, nsig, delivered, slept, bm, cli, peer>>

\* any other signal: r.Set(0)
WatcherSet0 ==
    /\ Running /\ wpc = "term_set"
    /\ \E o \in IoOutcomes : RelaySet("watcher", {}, o)
    /\ wpc' = "term_close"
    /\ UNCHANGED <<mainVars, rFile, rBoard, wsig, sigc, procVars, nsig, delivered, slept, bm, cli, peer>>

\* r.Close()
WatcherClose ==
    /\ Running /\ wpc = "term_close"
    /\ RelayClose("watcher")
    /\ wpc' = "term_exit"
    /\ UNCHANGED <<mainVars, rBoard, hw, wsig, sigc, procVars, nsig, delivered, faults, slept, bm, cli, peer>>

\* os.Exit(0)
WatcherExit ==
    /\ Running /\ wpc = "term_exit"
    /\ Exit("watcher", "signal")
    /\ UNCHANGED <<mainVars, relayVars, watchVars, histVars, bm, cli, peer>>

Next ==
    \/ MainNewRelay
    \/ MainPreflight
    \/ MainCleanup
    \/ EventRunSet
    \/ EventRunSleep
    \/ EventRunOff
    \/ EventRunSettle
    \/ MainDeferredClose
    \/ MainExit
    \/ SignalDeliver
    \/ WatcherRecv
    \/ WatcherGet
    \/ WatcherSet0
    \/ WatcherClose
    \/ WatcherExit

Spec == Init /\ [][Next]_vars

\* ------------------------------------------- the bit mapper on its own
\* MapSpec evaluates relay2ic and ic2relay on every value of 0..255, in both
\* orders; the process itself is not started.
MapInit ==
    /\ prog = <<[id |-> 0, dur |-> offTime]>>
    /\ pct = 100
    /\ board = 1
    /\ mainpc = "notstarted"
    /\ idx = 0
    /\ pre = [done |-> FALSE, val |-> {}, err |-> FALSE]
    /\ runErr = "none"
    /\ rFile = "nil"
    /\ rBoard = 0
    /\ hw = 0
    /\ wpc = "off"
    /\ wsig = "none"
    /\ sigc = <<>>
    /\ exitedBy = "none"
    /\ exitPath = "none"
    /\ trace = <<>>
    /\ nsig = 0
    /\ delivered = {}
    /\ faults = 0
    /\ slept = 0
    /\ cli = CliParsed
    /\ peer = PeerAbsent
    /\ bm \in {[stage |-> "in", dir |-> d, in |-> m, mid |-> 0, out |-> 0] :
                 d \in {"relay", "ic"}, m \in 0..255}

\* v := relay2ic(x), on the input (relay order) or on the intermediate value
ApplyRelay2ic ==
    /\ \/ /\ bm.dir = "relay" /\ bm.stage = "in"
          /\ bm' = [bm EXCEPT !.stage = "mid", !.mid = relay2ic(Bits(bm.in))]
       \/ /\ bm.dir = "ic" /\ bm.stage = "mid"
          /\ bm' = [bm EXCEPT !.stage = "out", !.out = relay2ic(Bits(bm.mid))]
    /\ UNCHANGED <<mainVars, relayVars, watchVars, procVars, histVars, cli, peer>>

\* v := ic2relay(x), on the input (ic order) or on the intermediate value
ApplyIc2relay ==
    /\ \/ /\ bm.dir = "ic" /\ bm.stage = "in"
          /\ bm' = [bm EXCEPT !.stage = "mid", !.mid = IntOf(ic2relay(bm.in))]
       \/ /\ bm.dir = "relay" /\ bm.stage = "mid"
          /\ bm' = [bm EXCEPT !.stage = "out", !.out = IntOf(ic2relay(bm.mid))]
    /\ UNCHANGED <<mainVars, relayVars, watchVars, procVars, histVars, cli, peer>>

MapNext == ApplyRelay2ic \/ ApplyIc2relay

MapSpec == MapInit /\ [][MapNext]_vars

\* ------------------------------------------- the library used on its own
\* LoopSpec is the README's basic usage on an open Relay: r.Set(i) for every
\* i of 0..255 and then r.Get(), each of which may fail.
LoopInit ==
    /\ prog = <<[id |-> 0, dur |-> offTime]>>
    /\ pct = 100
    /\ board = 1
    /\ mainpc = "notstarted"
    /\ idx = 0
    /\ pre = [done |-> FALSE, val |-> {}, err |-> FALSE]
    /\ runErr = "none"
    /\ rFile = "open"
    /\ rBoard = 1
    /\ hw \in InitialWire
    /\ wpc = "off"
    /\ wsig = "none"
    /\ sigc = <<>>
    /\ exitedBy = "none"
    /\ exitPath = "none"
    /\ trace = <<>>
    /\ nsig = 0
    /\ delivered = {}
    /\ faults = 0
    /\ slept = 0
    /\ cli = CliParsed
    /\ peer = PeerAbsent
    /\ bm \in {[stage |-> "in", dir |-> "loop", in |-> m, mid |-> 0, out |-> 0] :
                 m \in 0..255}

\* r.Set(i)
LoopSet ==
    /\ bm.dir = "loop" /\ bm.stage = "in"
    /\ \E o \in IoOutcomes :
         /\ RelaySet("lib", Bits(bm.in), o)
         /\ bm' = [bm EXCEPT !.stage = IF Failed(o[1]) THEN "seterr" ELSE "mid",
                             !.mid = SetBuf(Bits(bm.in))[2]]
    /\ UNCHANGED <<mainVars, rFile, rBoard, watchVars, procVars, nsig, delivered,
                   slept, cli, peer>>

\* r.Get(), right after a Set that returned nil
LoopGet ==
    /\ bm.dir = "loop" /\ bm.stage = "mid"
    /\ \E o \in ReadOutcomes :
         /\ RelayGet("lib", o)
         /\ bm' = [bm EXCEPT !.stage = IF Failed(o[1]) THEN "geterr" ELSE "out",
                             !.out = IntOf(GetValue(o))]
    /\ UNCHANGED <<mainVars, relayVars, watchVars, procVars, nsig, delivered,
                   slept, cli, peer>>

LoopNext == LoopSet \/ LoopGet

LoopSpec == LoopInit /\ [][LoopNext]_vars

\* ------------------------------------------- the process from its arguments
\* CliSpec starts main before flag.Parse, with -program absent or one of
\* ProgramTexts, -total-time on or off and -scale one of CliPercents; no signal
\* is delivered.
CliPercents == {-50, 0, 50, 100, 250}

CliInit ==
    /\ prog = <<>>
    /\ pct \in CliPercents
    /\ board \in Boards
    /\ mainpc = "parse"
    /\ idx = 0
    /\ pre = [done |-> FALSE, val |-> {}, err |-> FALSE]
    /\ runErr = "none"
    /\ rFile = "nil"
    /\ rBoard = 0
    /\ hw \in InitialWire
    /\ wpc = "off"
    /\ wsig = "none"
    /\ sigc = <<>>
    /\ exitedBy = "none"
    /\ exitPath = "none"
    /\ trace = <<>>
    /\ nsig = 0
    /\ delivered = {}
    /\ faults = 0
    /\ slept = 0
    /\ bm = BmIdle
    /\ peer = PeerAbsent
    /\ cli \in {[given |-> g, program |-> t, totalTime |-> d, stdout |-> <<>>] :
                  g \in BOOLEAN, t \in ProgramTexts, d \in BOOLEAN}
    /\ cli.given \/ cli.program = <<>>

CliNext ==
    \/ MainParse
    \/ MainStart
    \/ MainNewRelay
    \/ MainPreflight
    \/ MainCleanup
    \/ EventRunSet
    \/ EventRunSleep
    \/ EventRunOff
    \/ EventRunSettle
    \/ MainDeferredClose
    \/ MainExit

CliSpec == CliInit /\ [][CliNext]_vars

\* ------------------------------------------- signals outside the three kinds
\* SigSpec is Spec in an environment that also delivers signals the program
\* names nowhere (a terminal resize, say); signal.Notify(c) without a signal
\* list relays these to c like every other signal.
OtherSignals == {"SIGWINCH"}

SignalDeliverOther ==
    /\ Running /\ wpc # "off"
    /\ nsig < MaxSignals
    /\ nsig' = nsig + 1
    /\ \E s \in OtherSignals :
        /\ delivered' = delivered \cup {s}
        /\ sigc' = IF Len(sigc) < 1 THEN Append(sigc, s) ELSE sigc
    /\ UNCHANGED <<mainVars, relayVars, wpc, wsig, procVars, trace, faults, slept, bm, cli, peer>>

SigNext == Next \/ SignalDeliverOther

SigSpec == Init /\ [][SigNext]_vars

\* ------------------------------------------- two processes on one board
\* DuoSpec starts a second sprinkler process (cron starts instances
\* independently) on the same board, with its own handle; no signal is
\* delivered and the second process's I/O does not fail.  The two processes
\* share nothing but the board's register.
DuoInit ==
    /\ prog \in Programs
    /\ pct \in Percents
    /\ board = 1
    /\ mainpc = "newrelay"
    /\ idx = 0
    /\ pre = [done |-> FALSE, val |-> {}, err |-> FALSE]
    /\ runErr = "none"
    /\ rFile = "nil"
    /\ rBoard = 0
    /\ hw \in InitialWire
    /\ wpc = "off"
    /\ wsig = "none"
    /\ sigc = <<>>
    /\ exitedBy = "none"
    /\ exitPath = "none"
    /\ trace = <<>>
    /\ nsig = 0
    /\ delivered = {}
    /\ faults = 0
    /\ slept = 0
    /\ bm = BmIdle
    /\ cli = CliParsed
    /\ peer \in {[pc |-> "preflight", idx |-> 0, prog |-> p] : p \in Programs}

PeerUnchanged ==
    UNCHANGED <<mainVars, rFile, rBoard, watchVars, procVars, histVars, bm, cli>>

\* second process, main: NewRelay, i, err := r.Get(); if i != 0 { return };
\* cleanup(r); prog.run is entered
PeerPreflight ==
    /\ peer.pc = "preflight"
    /\ peer' = IF ic2relay(hw) # {}
               THEN [peer EXCEPT !.pc = "inuse"]
               ELSE [peer EXCEPT !.pc = "ev_set", !.idx = 1]
    /\ hw' = hw
    /\ PeerUnchanged

\* second process, event.run: r.Set(mask)
PeerRunSet ==
    /\ peer.pc = "ev_set"
    /\ hw' = SetBuf(EventMask(peer.prog[peer.idx].id))[2]
    /\ peer' = [peer EXCEPT !.pc = "ev_sleep"]
    /\ PeerUnchanged

\* second process, event.run: time.Sleep(dur)
PeerRunSleep ==
    /\ peer.pc = "ev_sleep"
    /\ peer' = [peer EXCEPT !.pc = "ev_off"]
    /\ hw' = hw
    /\ PeerUnchanged

\* second process, event.run: r.Set(0)
PeerRunOff ==
    /\ peer.pc = "ev_off"
    /\ hw' = SetBuf({})[2]
    /\ peer' = [peer EXCEPT !.pc = "ev_settle"]
    /\ PeerUnchanged

\* second process, event.run: time.Sleep(offTime); the next event, or main
\* returns and the process ends
PeerRunSettle ==
    /\ peer.pc = "ev_settle"
    /\ peer' = IF peer.idx < Len(peer.prog)
               THEN [peer EXCEPT !.pc = "ev_set", !.idx = @ + 1]
               ELSE [peer EXCEPT !.pc = "done"]
    /\ hw' = hw
    /\ PeerUnchanged

DuoNext ==
    \/ MainNewRelay
    \/ MainPreflight
    \/ MainCleanup
    \/ EventRunSet
    \/ EventRunSleep
    \/ EventRunOff
    \/ EventRunSettle
    \/ MainDeferredClose
    \/ MainExit
    \/ PeerPreflight
    \/ PeerRunSet
    \/ PeerRunSleep
    \/ PeerRunOff
    \/ PeerRunSettle

DuoSpec == DuoInit /\ [][DuoNext]_vars

\* ------------------------------------------- board selection on its own
\* BoardSpec is the library's NewRelay(bus, n) for every n of BoardArgs,
\* followed by up to MaxBoardCalls - 1 further r.Board(n) calls and r.Close()
\* in any order.  bm.in is the board handed to NewRelay, bm.mid the board
\* handed to the last Board call, bm.out is 1 when that call returned an error.
BoardArgs == -1..10

BoardInit ==
    /\ prog = <<[id |-> 0, dur |-> offTime]>>
    /\ pct = 100
    /\ board = 1
    /\ mainpc = "notstarted"
    /\ idx = 0
    /\ pre = [done |-> FALSE, val |-> {}, err |-> FALSE]
    /\ runErr = "none"
    /\ rFile = "nil"
    /\ rBoard = 0
    /\ hw \in InitialWire
    /\ wpc = "off"
    /\ wsig = "none"
    /\ sigc = <<>>
    /\ exitedBy = "none"
    /\ exitPath = "none"
    /\ trace = <<>>
    /\ nsig = 0
    /\ delivered = {}
    /\ faults = 0
    /\ slept = 0
    /\ cli = CliParsed
    /\ peer = PeerAbsent
    /\ bm \in {[stage |-> "in", dir |-> "board", in |-> n, mid |-> 0, out |-> 0] :
                 n \in BoardArgs}

BoardCalls == Cardinality({i \in 1..Len(trace) : trace[i].sys = "ioctl"})

\* NewRelay(bus, board)
LibNewRelay ==
    /\ bm.dir = "board" /\ bm.stage = "in"
    /\ \/ /\ (bm.in < 1 \/ bm.in > 8)
          /\ bm' = [bm EXCEPT !.stage = "rejected", !.out = 1]
          /\ UNCHANGED <<rFile, rBoard, trace, faults>>
       \/ /\ ~(bm.in < 1 \/ bm.in > 8)
          /\ faults < MaxFaults
          /\ faults' = faults + 1
          /\ bm' = [bm EXCEPT !.stage = "openfail", !.out = 1]
          /\ UNCHANGED <<rFile, rBoard, trace>>
       \/ /\ ~(bm.in < 1 \/ bm.in > 8)
          /\ rFile' = "open"
          /\ \E o \in ReadOutcomes :
               /\ RelayBoard("lib", bm.in, o)
               /\ bm' = [bm EXCEPT !.stage = "returned", !.mid = bm.in,
                                   !.out = IF Failed(o[1]) THEN 1 ELSE 0]
    /\ UNCHANGED <<mainVars, hw, watchVars, procVars, nsig, delivered, slept, cli, peer>>

\* r.Board(n) on the Relay that NewRelay returned
LibBoard ==
    /\ bm.dir = "board" /\ bm.stage = "returned"
    /\ BoardCalls < MaxBoardCalls
    /\ \E n \in BoardArgs, o \in ReadOutcomes :
         /\ RelayBoard("lib", n, o)
         /\ bm' = [bm EXCEPT !.mid = n, !.out = IF Failed(o[1]) THEN 1 ELSE 0]
    /\ UNCHANGED <<mainVars, rFile, hw, watchVars, procVars, nsig, delivered, slept, cli, peer>>

\* r.Close() on the Relay that NewRelay returned
LibClose ==
    /\ bm.dir = "board" /\ bm.stage = "returned"
    /\ rFile = "open"
    /\ RelayClose("lib")
    /\ bm' = bm
    /\ UNCHANGED <<mainVars, rBoard, hw, watchVars, procVars, nsig, delivered, faults, slept, cli, peer>>

BoardNext == LibNewRelay \/ LibBoard \/ LibClose

BoardSpec == BoardInit /\ [][BoardNext]_vars

\* ================================================================ claims
Dom == 1..Len(trace)

IsSet(i, who) == trace[i].api = "Set" /\ trace[i].who = who

\* the writes that were handed to the device (the handle was not yet closed)
HwWrites == {i \in Dom : trace[i].sys = "write" /\ trace[i].res # "closed"}

LastHwWriteIsOff == HwWrites # {} /\ trace[SetMax(HwWrites)].state = {}

InRun == mainpc \in {"ev_set", "ev_sleep", "ev_off", "ev_settle"}

Range(q) == {q[i] : i \in 1..Len(q)}

\* the masks of the Set calls the main goroutine issued, in order
IsMainSet(e) == e.api = "Set" /\ e.who = "main"

MainSetMasks ==
    LET S == SelectSeq(trace, IsMainSet)
    IN  [k \in 1..Len(S) |-> S[k].state]

\* the writes program.run issues when nothing fails
ExpectedWrites(p) ==
    [k \in 1..(2 * Len(p)) |-> IF k % 2 = 1 THEN EventMask(p[(k + 1) \div 2].id) ELSE {}]

\* C1: every mask program.run passes to Relay.Set, and the wire byte made
\* from it, has at most one bit set, and from the moment the run is entered
\* the board never has more than one relay energized.
C1_SingleZone ==
    /\ \A i \in Dom : IsSet(i, "main") =>
          /\ Cardinality(trace[i].state) <= 1
          /\ Cardinality(BitsOfByte(trace[i].byte)) <= 1
    /\ wpc # "off" => Cardinality(BitsOfByte(hw)) <= 1

\* C1 witness: the second event of a program whose first zone is above 8 has
\* energized relay 2 (wire bit 2).
C1_Witness ==
    /\ Len(prog) = 2 /\ prog[1].id = 9 /\ prog[2].id = 2
    /\ mainpc = "ev_sleep" /\ idx = 2
    /\ hw = 4
    /\ \E i \in Dom : IsSet(i, "main") /\ trace[i].state = {8}

\* C2: when the watcher ends the process on a termination signal, the last
\* write handed to the hardware is Set(0) (stated for the runs in which no
\* I/O call fails).
C2_LastWriteOffOnTermination ==
    (exitedBy = "watcher" /\ faults = 0) => LastHwWriteIsOff

\* C3 as stated: whenever program.run has returned to main and no signal was
\* delivered, the last hardware write issued is Set(0).
C3_OffWheneverRunReturns ==
    (runErr # "none" /\ delivered = {}) => LastHwWriteIsOff

\* C3 amended: whenever program.run has returned nil and no signal was
\* delivered, the last hardware write issued is Set(0).
C3_OffWhenRunReturnsNil ==
    (runErr = "nil" /\ delivered = {}) => LastHwWriteIsOff

\* C3 witness: a run that energized a relay has returned nil, undisturbed.
C3_Witness ==
    /\ runErr = "nil" /\ delivered = {}
    /\ \E i \in Dom : IsSet(i, "main") /\ trace[i].byte # 0

\* C4 (safety core): a termination signal delivered to the running process is
\* never lost: until the process exits it is queued in c or in the hands of
\* the watcher, which is on its Set(0), Close, exit path.
C4_TerminationSignalNotLost ==
    \A s \in TermSignals : (Running /\ s \in delivered) =>
        \/ s \in Range(sigc)
        \/ wsig = s /\ wpc \in {"term_set", "term_close", "term_exit"}

\* C5: once a Set issued by program.run has failed, the run issues no further
\* Set and does not return nil.
C5_FailFast ==
    \A i \in Dom : (IsSet(i, "main") /\ Failed(trace[i].res)) =>
        /\ \A j \in Dom : j > i => ~IsSet(j, "main")
        /\ runErr # "nil"

\* C6: when the preflight Get returned a nonzero mask, program.run is never
\* entered, the watcher is never installed and no write is issued.
C6_PreflightGuard ==
    (pre.done /\ pre.val # {}) =>
        /\ ~InRun /\ runErr = "none" /\ idx = 0
        /\ wpc = "off"
        /\ \A i \in Dom : trace[i].sys # "write"

\* C6 witness: the process has ended because the relays were already active.
C6_Witness ==
    /\ pre.done /\ pre.val # {}
    /\ exitedBy = "main" /\ exitPath = "inuse"

\* C7: whenever the process has exited after NewRelay opened the handle,
\* Relay.Close has been called.
C7_CloseOnEveryExit ==
    (exitedBy # "none" /\ rFile # "nil") => rFile = "closed"

\* C8: the watcher's handling of SIGUSR1 issues one read and nothing else,
\* leaves the board, the handle and the main goroutine where they were and
\* goes back to waiting; and a run disturbed only by status queries issues
\* exactly the writes of the undisturbed run.
C8_StatusStep ==
    (wpc = "usr1" /\ wpc' # "usr1") =>
        /\ wpc' = "recv"
        /\ hw' = hw /\ rFile' = rFile /\ rBoard' = rBoard
        /\ mainVars' = mainVars
        /\ procVars' = procVars
        /\ Len(trace') = Len(trace) + 1
        /\ SubSeq(trace', 1, Len(trace)) = trace
        /\ trace'[Len(trace')].sys = "read"

C8_SameWrites ==
    (exitPath = "done" /\ faults = 0 /\ delivered = {"SIGUSR1"}) =>
        MainSetMasks = ExpectedWrites(prog)

C8_StatusQueryReadOnly == [][C8_StatusStep /\ C8_SameWrites']_vars

\* C8 witness: the watcher has reported an energized relay while the main
\* goroutine sleeps, and is waiting again.
C8_Witness ==
    /\ delivered = {"SIGUSR1"} /\ wpc = "recv"
    /\ mainpc = "ev_sleep" /\ hw # 0
    /\ trace # <<>>
    /\ trace[Len(trace)].who = "watcher"
    /\ trace[Len(trace)].sys = "read"
    /\ trace[Len(trace)].state # {}

\* C9: every read of Relay.Get is directly preceded by Get's write of the
\* read indicator {readAddress, 0}.
C9_GetWritesReadIndicator ==
    \A i \in Dom : trace[i].sys = "read" =>
        /\ i > 1
        /\ trace[i - 1].sys = "write"
        /\ trace[i - 1].api = "Get"
        /\ trace[i - 1].who = trace[i].who
        /\ trace[i - 1].out = GetBuf

\* C10: relay2Addr is a permutation of 0..7 with addr2Relay its inverse, and
\* for every m in 0..255 ic2relay(relay2ic(m)) = m and
\* relay2ic(ic2relay(m)) = m.
C10_Bijection ==
    /\ {relay2Addr[i] : i \in 0..7} = 0..7
    /\ \A i \in 0..7 : addr2Relay[relay2Addr[i]] = i
    /\ bm.stage = "out" => bm.out = bm.in

\* C10 witness: a round trip of a mask that the permutation moves is done.
C10_Witness ==
    /\ bm.stage = "out" /\ bm.in = 50 /\ bm.mid # bm.in

\* C11: for every mask m of 0..255, with the board a register that keeps the
\* last wire byte written, a Get that succeeds right after a Set(m) that
\* succeeded returns m.
C11_Loopback ==
    (bm.dir = "loop" /\ bm.stage = "out") =>
        /\ bm.out = bm.in
        /\ trace[Len(trace)].state = Bits(bm.in)
        /\ trace[Len(trace) - 1].state = Bits(bm.in)

\* the mask 50 came back although the wire byte that carried it is not 50
C11_Witness ==
    /\ bm.dir = "loop" /\ bm.stage = "out"
    /\ bm.in = 50 /\ bm.mid # 50 /\ hw = bm.mid
    /\ trace[Len(trace)].api = "Get" /\ trace[Len(trace)].res = "ok"
    /\ trace[Len(trace) - 1].api = "Set" /\ trace[Len(trace) - 1].res = "ok"

\* the comma-separated texts of -program
ArgTexts == StrSplit(cli.program, ",")

Accepted(t) == EventSet(t).err = "none"

\* C12: every event that event.Set / program.Set accepts has dur >= offTime,
\* so every event of a program that reaches run or duration has; "1:1s" is
\* rejected with an error, and the parse of a program ends at its first
\* failing event (the texts after it are not looked at, the process ends).
C12_DurationInvariant ==
    /\ \A i \in 1..Len(prog) : prog[i].dur >= offTime
    /\ mainpc # "parse" =>
          /\ cli.given => Len(prog) = Len(ArgTexts)
          /\ \A i \in 1..Len(prog) : Accepted(ArgTexts[i]) /\ prog[i] = EventSet(ArgTexts[i]).e
    /\ (cli.given /\ cli.program = <<"1", ":", "1", "s">>) =>
          (mainpc = "parse" /\ (exitedBy # "none" => exitedBy = "flag" /\ prog = <<>>))
    /\ exitedBy = "flag" =>
          /\ mainpc = "parse" /\ trace = <<>> /\ rFile = "nil"
          /\ Len(prog) < Len(ArgTexts)
          /\ ~Accepted(ArgTexts[Len(prog) + 1])
          /\ exitPath = EventSet(ArgTexts[Len(prog) + 1]).err
          /\ \A i \in 1..Len(prog) : Accepted(ArgTexts[i]) /\ prog[i] = EventSet(ArgTexts[i]).e

\* -program 1:10s,1:1s was rejected at its second event
C12_Witness ==
    /\ exitedBy = "flag" /\ exitPath = "tooshort"
    /\ cli.program = <<"1", ":", "1", "0", "s", ",", "1", ":", "1", "s">>
    /\ prog = <<[id |-> 1, dur |-> 10000]>>

\* durations and percentages scale is evaluated on, on both sides of every
\* branch: negative, zero, below, at and above offTime
ScaleDurations == {-10000, -1, 0, 1, 2900, 3000, 3100, 10000, 90000}

ScalePercents == -250..250

ScaleFloorOnSamples ==
    \A d \in ScaleDurations, p \in ScalePercents : scale(d, p) >= offTime

\* the step of event.run that sleeps the energized phase
C13_SleepStep == mainpc = "ev_sleep" /\ mainpc' = "ev_off"

\* C13: scale(d, p) >= offTime for every duration d and every integer p, zero
\* and negative included; so every energized phase event.run sleeps lasts at
\* least the settling delay.
C13_DurationFloor ==
    [][/\ ScaleFloorOnSamples
       /\ C13_SleepStep =>
             /\ slept' - slept = scale(prog[idx].dur, pct)
             /\ slept' - slept >= offTime]_vars

\* with -scale -50 the energized phase of a 10 s event was slept for offTime
C13_Witness ==
    /\ mainpc = "ev_off" /\ idx = 1
    /\ pct = -50 /\ prog[1].dur = 10000
    /\ slept = offTime

\* the time program.run has slept once it is through the first n events
RECURSIVE SleptThrough(_)
SleptThrough(n) ==
    IF n = 0 THEN 0
    ELSE SleptThrough(n - 1) + scale(prog[n].dur, pct) + offTime

\* C14: duration(p) is the sum of scale(dur, p) over the events plus
\* len * offTime, which is also the time program.run sleeps when it returns
\* nil; "1:10s,2:10s" at 100 gives 26 s.
C14_TotalDuration ==
    /\ exitPath = "totaltime" => cli.stdout = <<SleptThrough(Len(prog))>>
    /\ runErr = "nil" => slept = ProgramDuration(prog, pct)
    /\ (pct = 100 /\ cli.program = <<"1", ":", "1", "0", "s", ",", "2", ":", "1", "0", "s">>) =>
          /\ exitPath = "totaltime" => cli.stdout = <<26000>>
          /\ runErr = "nil" => slept = 26000

\* "1:10s,2:10s" at 100 ran to its end with no failure: 26 s slept
C14_Witness ==
    /\ exitPath = "done" /\ faults = 0 /\ pct = 100
    /\ prog = <<[id |-> 1, dur |-> 10000], [id |-> 2, dur |-> 10000]>>
    /\ slept = 26000
    /\ ProgramDuration(prog, pct) = 26000

\* the number of Sets program.run has issued, by the position of main
SetsIssued ==
    IF mainpc = "ev_set" THEN 2 * (idx - 1)
    ELSE IF mainpc \in {"ev_sleep", "ev_off"} THEN 2 * idx - 1
    ELSE IF mainpc = "ev_settle" THEN 2 * idx
    ELSE 2 * Len(prog)

\* the time program.run has slept, by the position of main
SleptSoFar ==
    IF mainpc \in {"ev_set", "ev_sleep"} THEN SleptThrough(idx - 1)
    ELSE IF mainpc \in {"ev_off", "ev_settle"}
         THEN SleptThrough(idx - 1) + scale(prog[idx].dur, pct)
    ELSE SleptThrough(Len(prog))

\* C15: with no Set failure and no signal, program.run issues exactly
\* Set(m1), Set(0), ..., Set(mn), Set(0) in list order, and the energizing
\* write of an event is issued only when the all-off write and the settling
\* delay of the event before it are over.
C15_StrictSequencing ==
    (delivered = {} /\ faults = 0 /\ (InRun \/ runErr = "nil")) =>
        /\ MainSetMasks = SubSeq(ExpectedWrites(prog), 1, SetsIssued)
        /\ slept = SleptSoFar

\* <<1, 9>> ran to its end: zone 1, off, zone 9, off, in that order
C15_Witness ==
    /\ exitPath = "done" /\ delivered = {} /\ faults = 0
    /\ Len(prog) = 2 /\ prog[1].id = 1 /\ prog[2].id = 9
    /\ MainSetMasks = <<{0}, {}, {8}, {}>>
    /\ slept = SleptThrough(2)

Closes == {i \in Dom : trace[i].sys = "close"}

\* C16: across main's deferred Close and the watcher's Close, in every
\* interleaving, Close is called at most once on the handle and no Set or Get
\* is issued on it after it was closed (looked at in runs with no I/O failure).
C16_CloseOnceNoUseAfter ==
    faults = 0 =>
        /\ Cardinality(Closes) <= 1
        /\ \A i \in Closes : \A j \in Dom : j > i => trace[j].sys = "close"

\* C17: a delivered signal that is neither the status query nor a
\* termination signal causes no hardware operation and no process exit.
C17_UnlistedSignalsIgnored ==
    (delivered # {} /\ delivered \subseteq (OtherSignals \cup {"SIGURG"})) =>
        /\ wpc \in {"off", "recv"}
        /\ exitedBy # "watcher"
        /\ \A i \in Dom : trace[i].who # "watcher"

PeerInRun == peer.pc \in {"ev_set", "ev_sleep", "ev_off", "ev_settle"}

\* C18: of two sprinkler processes started on the same board at most one is
\* ever inside program.run: the second does not pass its preflight while the
\* first has not finished its run.
C18_OneRunAtATime == ~(InRun /\ PeerInRun)

\* the device file was opened, or an open, read or write of it was attempted
DeviceTouched ==
    rFile # "nil" \/ trace # <<>> \/ faults > 0 \/ exitPath = "openfail"

ParseFailed == cli.given /\ \E i \in 1..Len(ArgTexts) : ~Accepted(ArgTexts[i])

\* C19: the device is opened, read or written only if the parsed program is
\* not empty and -total-time is off; with no program, a program text that
\* fails to parse, or -total-time, the process ends with no open, Get or Set.
C19_NoHardwareBeforeValidation ==
    /\ DeviceTouched => (Len(prog) >= 1 /\ ~cli.totalTime /\ ~ParseFailed)
    /\ (~cli.given \/ ParseFailed \/ cli.totalTime) =>
          (~DeviceTouched /\ mainpc \in {"parse", "start"})
    /\ exitPath \in {"noprogram", "totaltime"} => ~DeviceTouched
    /\ exitedBy = "flag" => ~DeviceTouched

\* -total-time on a board whose relays are energized: the total was printed
\* and the process ended without opening the device
C19_Witness ==
    /\ exitPath = "totaltime" /\ cli.stdout # <<>>
    /\ Len(prog) = 2 /\ hw = 5
    /\ rFile = "nil" /\ trace = <<>>

Ioctls == {i \in Dom : trace[i].sys = "ioctl"}

\* C20: after any Relay.Board(n) call the board field is n if the address
\* select succeeded and 0 if it failed; NewRelay rejects a board outside 1..8
\* without opening a handle, and when the select fails after the open it
\* returns the error with a non-nil Relay whose handle can still be closed.
C20_BoardFailClosed ==
    /\ Ioctls # {} =>
          /\ rBoard = IF trace[SetMax(Ioctls)].res = "ok" THEN bm.mid ELSE 0
          /\ trace[SetMax(Ioctls)].byte = baseAddress - ((bm.mid - 1) % 8)
          /\ bm.out = 1 <=> trace[SetMax(Ioctls)].res # "ok"
    /\ (bm.in < 1 \/ bm.in > 8) =>
          (bm.stage \in {"in", "rejected"} /\ rFile = "nil" /\ trace = <<>> /\ faults = 0)
    /\ bm.stage = "rejected" => (bm.in < 1 \/ bm.in > 8)
    /\ (bm.stage = "returned" /\ BoardCalls = 1 /\ bm.out = 1) =>
          (rFile # "nil" /\ rBoard = 0 /\ (Closes = {} => rFile = "open"))
    /\ \A i \in Closes : trace[i].res = "ok"

\* NewRelay(bus, 3) opened the bus, failed to select the board and returned
\* the Relay with its error; the Relay was then closed
C20_Witness ==
    /\ bm.dir = "board" /\ bm.stage = "returned" /\ bm.in = 3 /\ bm.out = 1
    /\ Len(trace) = 2
    /\ trace[1].sys = "ioctl" /\ trace[1].res = "err" /\ trace[1].byte = 37
    /\ trace[2].sys = "close" /\ trace[2].res = "ok"
    /\ rBoard = 0 /\ rFile = "closed"

====
